---- MODULE Spec2Model ----
(***************************************************************************)
(* A model of mu/interface.py: the REPL pane (serial byte rendering and    *)
(* key forwarding) and the main window (editor tabs, themes, web views,    *)
(* button bar, project selection).                                         *)
(*                                                                         *)
(* Text is a sequence of code points.  A cursor position p in 0..Len(text) *)
(* lies between characters; the character under the cursor is text[p+1].   *)
(* A cursor is a record [position, anchor]; it has a selection when the    *)
(* two differ.  The pane is taken to be wide enough that no line wraps, so *)
(* a visual line is a block of text between newlines and the horizontal    *)
(* offset x of the cursor is its column.                                   *)
(***************************************************************************)
EXTENDS Integers, Sequences, FiniteSets, TLC

\* ------------------------------------------------------------------ bounds
\* Most bytes the device sends in one behaviour.
MaxRx == 3
\* Most key events in one behaviour.
MaxKeys == 2
\* Most editor tabs open at once.
MaxTabs == 2
\* The depth at which the interpreter stops a recursion (RecursionError).
RecursionLimit == 3

\* --------------------------------------------------------------- constants
BS == 8
CR == 13
NL == 10
ESC == 27
CTRL_C == 3
BAUD == 115200

\* Byte values the device sends: the two special-cased ones, newline, ESC
\* and a printable character.
Bytes == {BS, CR, NL, ESC, 97}

\* Theme names handed to the panes ('day' and 'night' are the ones the
\* program uses; any other string is accepted by the code).
Themes == {"day", "night", "contrast"}

VARIABLES
    \* REPLPane
    serial_state,   \* "unopened", "open" or "failed": QSerialPort.open's result
    baudRate,       \* 0 until setBaudRate
    readyRead,      \* whether on_serial_read is connected to serial.readyRead
    ctor_effects,   \* the constructor's effects, in the order they happened
    ctor_raised,    \* "none" or "IOError"
    repl_style,     \* the pane's style sheet: "unset", "DAY_STYLE", "NIGHT_STYLE"
    text,           \* the document of the QTextEdit
    cursor,         \* the widget's text cursor
    pc,             \* "idle", or "process_bytes" while the for loop runs
    bs,             \* process_bytes: the bytes the for loop has still to handle
    tc,             \* process_bytes: the local cursor tc
    serial_in,      \* bytes that arrived on the port and were not read yet
    serial_out,     \* the messages written to the port, oldest first
    received,       \* history: every byte the device sent, in order
    rendered,       \* history: every byte the for loop handled, in order
    nkeys           \* history: the number of key events handled

VARIABLES
    \* Window: editor tabs, theme, button bar, REPL
    win_theme,      \* Window.theme
    style,          \* the window's style sheet
    theme_icon,     \* the icon of the theme button
    tabs,           \* the editor tabs: [path, modified, theme, tab_text,
                    \* index], index being the tab's index when it was added
    current,        \* the index of the current tab, 0 when there is none
    visible,        \* which of the run, flash, play, blocks buttons show
    win_repl,       \* Window.repl: "unset", "None" or the widget's class
    \* Window: web views, project selection
    webview_left,   \* Window._webview_left: "unset", "None" or "WebViewPane"
    webview_right,  \* Window._webview_right, likewise
    zoom_left,      \* zoom factor of the left web view, in tenths
    zoom_right,     \* zoom factor of the right web view, in tenths
    read_left,      \* outcome of the last read of Window.webview_left
    read_right,     \* outcome of the last read of Window.webview_right
    template,       \* outcome of the last Window.get_template
    project         \* outcome of the last ProjectSelector.get_project

replvars == <<serial_state, baudRate, readyRead, ctor_effects, ctor_raised,
              repl_style, text, cursor, pc, bs, tc, serial_in, serial_out,
              received, rendered, nkeys>>
tabvars == <<win_theme, style, theme_icon, tabs, current, visible, win_repl>>
viewvars == <<webview_left, webview_right, zoom_left, zoom_right, read_left,
              read_right, template, project>>

vars == <<replvars, tabvars, viewvars>>

\* ---------------------------------------------------------------- helpers
Min(a, b) == IF a < b THEN a ELSE b
Max(a, b) == IF a > b THEN a ELSE b

Cursor(p, a) == [position |-> p, anchor |-> a]

\* t without the characters at positions from+1 .. to.
Remove(t, from, to) == SubSeq(t, 1, from) \o SubSeq(t, to + 1, Len(t))

\* t with character c inserted at position p.
Insert(t, p, c) == SubSeq(t, 1, p) \o <<c>> \o SubSeq(t, p + 1, Len(t))

\* Start and end position of the line holding position p.
LineStart(t, p) ==
    CHOOSE i \in 0..p : /\ (i = 0 \/ t[i] = NL)
                        /\ \A j \in (i + 1)..p : t[j] # NL
LineEnd(t, p) ==
    CHOOSE i \in p..Len(t) : /\ (i = Len(t) \/ t[i + 1] = NL)
                             /\ \A j \in (p + 1)..i : t[j] # NL

\* QTextCursor.movePosition(Down): FALSE on the last line, where the cursor
\* is left as it is; otherwise the cursor goes to the next line at offset x
\* (or that line's end when it is shorter) and drops its selection.
CanMoveDown(t, c) == LineEnd(t, c.position) < Len(t)
MoveDown(t, c, x) ==
    LET s == LineEnd(t, c.position) + 1
        p == Min(s + x, LineEnd(t, s))
    IN  Cursor(p, p)

\* while tc.movePosition(QTextCursor.Down): pass
RECURSIVE MoveToLastLine(_, _, _)
MoveToLastLine(t, c, x) ==
    IF CanMoveDown(t, c) THEN MoveToLastLine(t, MoveDown(t, c, x), x) ELSE c

\* QTextCursor.movePosition(Left): one position back, none at the start of
\* the document; the selection is dropped.
MoveLeft(c) ==
    LET p == Max(c.position - 1, 0) IN Cursor(p, p)

\* QTextCursor.deleteChar: the selected text when there is a selection,
\* otherwise the character under the cursor, if any.
DeleteCharText(t, c) ==
    IF c.position # c.anchor
    THEN Remove(t, Min(c.position, c.anchor), Max(c.position, c.anchor))
    ELSE IF c.position < Len(t) THEN Remove(t, c.position, c.position + 1)
    ELSE t
DeleteCharCursor(c) ==
    LET p == Min(c.position, c.anchor) IN Cursor(p, p)

\* chr(b): the character with code point b.  Code points are the model's
\* characters, so the byte value is the code point (Latin-1).
Chr(b) == b

\* The state the for loop of process_bytes works on.
LoopState(t, c, w) == [text |-> t, tc |-> c, cursor |-> w]

\* HandleByte without tc.deleteChar(): characters are inserted, never
\* overwritten.
HandleByte_NoDelete(st, b) ==
    IF b = BS
    THEN LET c == MoveLeft(st.tc) IN LoopState(st.text, c, c)
    ELSE IF b = CR
    THEN st
    ELSE LET p == st.tc.position
         IN  LoopState(Insert(st.text, p, Chr(b)), Cursor(p + 1, p + 1),
                       Cursor(p + 1, p + 1))

\* One iteration of the for loop of process_bytes on byte b.
HandleByte(st, b) ==
    IF b = BS
    THEN \* tc.movePosition(QTextCursor.Left); self.setTextCursor(tc)
         LET c == MoveLeft(st.tc) IN LoopState(st.text, c, c)
    ELSE IF b = CR
    THEN st
    ELSE \* tc.deleteChar(); self.setTextCursor(tc);
         \* self.insertPlainText(chr(b)): the insertion at the widget's
         \* cursor carries tc, which is at the same position, along.
         LET t1 == DeleteCharText(st.text, st.tc)
             c1 == DeleteCharCursor(st.tc)
             c2 == Cursor(c1.position + 1, c1.position + 1)
         IN  LoopState(Insert(t1, c1.position, Chr(b)), c2, c2)

\* for b in bs: the iterations of the loop of process_bytes on the bytes s,
\* in order, from loop state st.
RECURSIVE ForBytes(_, _)
ForBytes(st, s) ==
    IF s = <<>> THEN st ELSE ForBytes(HandleByte(st, Head(s)), Tail(s))

\* One call process_bytes(s) on a pane showing text t with its cursor at w:
\* tc is a copy of the widget's cursor moved down to the last line, then the
\* loop runs; ensureCursorVisible only scrolls.
ProcessBytes(t, w, s) ==
    LET x == w.position - LineStart(t, w.position)
    IN  ForBytes(LoopState(t, MoveToLastLine(t, w, x), w), s)

\* ---------------------------------------------------------- key encoding
\* Qt.Key and Qt.KeyboardModifier values.
Key_Backspace == 16777219
Key_Return == 16777220
Key_Left == 16777234
Key_Up == 16777235
Key_Right == 16777236
Key_Down == 16777237
Key_At == 64
Key_A == 65
Key_Z == 90
Key_BracketLeft == 91
NoModifier == 0
ShiftModifier == 33554432
ControlModifier == 67108864
MetaModifier == 268435456

Keys == {Key_Backspace, Key_Return, Key_Left, Key_Up, Key_Right, Key_Down,
         Key_At, Key_A, Key_Z, Key_BracketLeft}
Modifiers == {NoModifier, ControlModifier, MetaModifier,
              MetaModifier + ShiftModifier}
\* Texts a key event carries: none, 'a', 'e' acute, the euro sign.
KeyTexts == {<<>>, <<97>>, <<233>>, <<8364>>}

\* The UTF-8 encoding of one code point of the Basic Multilingual Plane.
Utf8Char(cp) ==
    IF cp < 128 THEN <<cp>>
    ELSE IF cp < 2048 THEN <<192 + (cp \div 64), 128 + (cp % 64)>>
    ELSE <<224 + (cp \div 4096), 128 + ((cp \div 64) % 64), 128 + (cp % 64)>>

\* bytes(data.text(), 'utf8')
RECURSIVE Utf8(_)
Utf8(s) == IF s = <<>> THEN <<>> ELSE Utf8Char(Head(s)) \o Utf8(Tail(s))

\* KeyMsg with the Control key tested as Qt.ControlModifier.
KeyMsg_Control(key, mods, txt) ==
    IF key = Key_Backspace THEN <<BS>>
    ELSE IF key = Key_Up THEN <<ESC, 91, 65>>
    ELSE IF key = Key_Down THEN <<ESC, 91, 66>>
    ELSE IF key = Key_Right THEN <<ESC, 91, 67>>
    ELSE IF key = Key_Left THEN <<ESC, 91, 68>>
    ELSE IF mods = ControlModifier /\ Key_A <= key /\ key <= Key_Z
         THEN <<1 + key - Key_A>>
    ELSE Utf8(txt)

\* The message keyPressEvent writes for a key event.
KeyMsg(key, mods, txt) ==
    IF key = Key_Backspace THEN <<BS>>
    ELSE IF key = Key_Up THEN <<ESC, 91, 65>>
    ELSE IF key = Key_Down THEN <<ESC, 91, 66>>
    ELSE IF key = Key_Right THEN <<ESC, 91, 67>>
    ELSE IF key = Key_Left THEN <<ESC, 91, 68>>
    ELSE IF mods = MetaModifier /\ Key_A <= key /\ key <= Key_Z
         THEN <<1 + key - Key_A>>
    ELSE Utf8(txt)

\* REPLPane.set_theme
ReplStyle(theme) == IF theme = "day" THEN "DAY_STYLE" ELSE "NIGHT_STYLE"

\* ------------------------------------------------------- window: helpers
\* Paths of editor tabs; '' is a tab that was never saved.
Paths == {"", "main.py", "/home/pygamezero/micropython.py",
          "/home/pygamezero/", "/home/blocks/b.py"}

\* 'needle in s' for strings.
Contains(s, needle) ==
    \E i \in 1..(Len(s) - Len(needle) + 1) :
        SubSeq(s, i, i + Len(needle) - 1) = needle

\* os.path.basename (POSIX): what follows the last '/'.
RECURSIVE BaseName(_)
BaseName(s) ==
    IF s = "" THEN ""
    ELSE IF SubSeq(s, Len(s), Len(s)) = "/" THEN ""
    ELSE BaseName(SubSeq(s, 1, Len(s) - 1)) \o SubSeq(s, Len(s), Len(s))

\* EditorPane.label with the full path in place of its base name.
Label_FullPath(path, modified) ==
    LET label == IF path # "" THEN path ELSE "untitled"
    IN  IF modified THEN label \o " *" ELSE label

\* EditorPane.label
Label(path, modified) ==
    LET label == IF path # "" THEN BaseName(path) ELSE "untitled"
    IN  IF modified THEN label \o " *" ELSE label

\* EditorPane.__init__(path, text): unmodified, DayTheme from configure();
\* added by add_tab at new_tab_index with its label as the tab's text.
EditorPane(path, new_tab_index) ==
    [path |-> path, modified |-> FALSE, theme |-> "DayTheme",
     tab_text |-> Label(path, FALSE), index |-> new_tab_index]

\* The sequence ts without its element i.
RemoveAt(ts, i) == SubSeq(ts, 1, i - 1) \o SubSeq(ts, i + 1, Len(ts))

\* The theme class, style sheet and icon Window.set_theme chooses.
ThemeClass(t) == IF t = "night" THEN "NightTheme" ELSE "DayTheme"
ThemeStyle(t) == IF t = "night" THEN "NIGHT_STYLE" ELSE "DAY_STYLE"
ThemeIcon(t) == IF t = "night" THEN "theme_day" ELSE "theme"

\* for widget in self.widgets: widget.set_theme(new_theme)
ThemedTabs(ts, t) == [i \in DOMAIN ts |-> [ts[i] EXCEPT !.theme = ThemeClass(t)]]

\* set_button_state with the pygamezero test before the micropython test.
SetButtonState_PlayFirst(vis, path) ==
    IF path # ""
    THEN IF Contains(path, "pygamezero")
         THEN [vis EXCEPT !.run = FALSE, !.flash = FALSE, !.play = TRUE]
         ELSE IF Contains(path, "micropython")
         THEN [vis EXCEPT !.run = FALSE, !.flash = TRUE, !.play = FALSE]
         ELSE IF Contains(path, "blocks")
         THEN [vis EXCEPT !.run = TRUE, !.flash = FALSE, !.play = FALSE,
                          !.blocks = TRUE]
         ELSE [vis EXCEPT !.run = TRUE, !.flash = FALSE, !.play = FALSE]
    ELSE vis

\* ButtonBar.set_button_state(tab)
SetButtonState(vis, path) ==
    IF path # ""
    THEN IF Contains(path, "micropython")
         THEN [vis EXCEPT !.run = FALSE, !.flash = TRUE, !.play = FALSE]
         ELSE IF Contains(path, "pygamezero")
         THEN [vis EXCEPT !.run = FALSE, !.flash = FALSE, !.play = TRUE]
         ELSE IF Contains(path, "blocks")
         THEN [vis EXCEPT !.run = TRUE, !.flash = FALSE, !.play = FALSE,
                          !.blocks = TRUE]
         ELSE [vis EXCEPT !.run = TRUE, !.flash = FALSE, !.play = FALSE]
    ELSE vis

\* The outcome of a call: the value returned or the exception raised.
\* Values are records, so that any two can be compared.
Returned(v) == [returned |-> v]
Raised(e) == [raised |-> e]
Uncalled == [uncalled |-> TRUE]
PyNone == [py |-> "None"]
Widget(w) == [py |-> w]

\* QDialog.DialogCode
Rejected == 0
Accepted == 1

\* The project templates offered, and the name the user types.
Templates ==
    <<[name |-> "Python", icon |-> "python", path |-> "python",
       default |-> "print('Hello')"],
      [name |-> "micro:bit", icon |-> "microbit", path |-> "micropython",
       default |-> "from microbit import *"]>>
ProjectNames == {"game"}

\* ProjectSelector.get_project: the value returned, or the exception raised.
GetProject(result, row, name) ==
    IF result = Accepted
    THEN Returned([path |-> Templates[row].path,
                   default |-> Templates[row].default,
                   name |-> name])
    ELSE Raised("RuntimeError")

\* Window.get_template without the test of the dialog's result.
GetTemplate_NoTest(result, row, name) == GetProject(result, row, name)

\* Window.get_template: the value returned, or the exception raised.
GetTemplate(result, row, name) ==
    IF result = Accepted
    THEN GetProject(result, row, name)
    ELSE Returned(PyNone)

\* Window.webview_left: the attribute, None on AttributeError.
WebviewLeftGet ==
    IF webview_left = "unset"
    THEN Returned(PyNone)
    ELSE Returned(Widget(webview_left))

\* Window.webview_right: the getter reads the property webview_right, that
\* is, calls itself; only AttributeError is caught on the way back.
RECURSIVE WebviewRightGet(_)
WebviewRightGet(depth) ==
    IF depth >= RecursionLimit
    THEN Raised("RecursionError")
    ELSE LET r == WebviewRightGet(depth + 1)
         IN  IF r = Raised("AttributeError") THEN Returned(PyNone) ELSE r

\* Zoom factors in tenths.
ZoomDefault == 10
ZoomStep == 1
ZoomMax == 20
ZoomMin == 5

\* WebViewPane.zoomIn without the upper limit.
ZoomIn_NoLimit(z) == z + ZoomStep

\* WebViewPane.zoomIn: the new zoom factor.
ZoomIn(z) ==
    LET new_zoom == z + ZoomStep
    IN  IF new_zoom < ZoomMax THEN new_zoom ELSE ZoomMax

\* WebViewPane.zoomOut: the new zoom factor.
ZoomOut(z) ==
    LET new_zoom == z - ZoomStep
    IN  IF new_zoom > ZoomMin THEN new_zoom ELSE ZoomMin

\* ------------------------------------------------------------------- Init
Init ==
    /\ serial_state = "unopened"
    /\ baudRate = 0
    /\ readyRead = FALSE
    /\ ctor_effects = <<>>
    /\ ctor_raised = "none"
    /\ repl_style = "unset"
    /\ text = <<>>
    /\ cursor = Cursor(0, 0)
    /\ pc = "idle"
    /\ bs = <<>>
    /\ tc = Cursor(0, 0)
    /\ serial_in = <<>>
    /\ serial_out = <<>>
    /\ received = <<>>
    /\ rendered = <<>>
    /\ nkeys = 0
    \* Window.setup(theme)
    /\ win_theme \in Themes
    /\ style = ThemeStyle(win_theme)
    /\ theme_icon = ThemeIcon(win_theme)
    /\ tabs = <<>>
    /\ current = 0
    /\ visible = [run |-> TRUE, flash |-> TRUE, play |-> TRUE, blocks |-> TRUE]
    /\ win_repl = "unset"
    /\ webview_left = "unset"
    /\ webview_right = "unset"
    /\ zoom_left = ZoomDefault
    /\ zoom_right = ZoomDefault
    /\ read_left = Uncalled
    /\ read_right = Uncalled
    /\ template = Uncalled
    /\ project = Uncalled

\* ------------------------------------------------------- REPLPane actions
\* REPLPane.__init__ with the Control-C written before the port is tested.
REPLPaneInit_WriteFirst(opens, theme) ==
    /\ serial_state \in {"unopened", "failed"}
    /\ serial_out' = Append(serial_out, <<CTRL_C>>)
    /\ IF opens
       THEN /\ serial_state' = "open"
            /\ baudRate' = BAUD
            /\ readyRead' = TRUE
            /\ text' = <<>>
            /\ cursor' = Cursor(0, 0)
            /\ repl_style' = ReplStyle(theme)
            /\ ctor_effects' = <<"write", "setBaudRate", "connect", "clear",
                                 "set_theme">>
            /\ ctor_raised' = "none"
       ELSE /\ serial_state' = "failed"
            /\ ctor_raised' = "IOError"
            /\ UNCHANGED <<baudRate, readyRead, text, cursor, repl_style,
                           ctor_effects>>
    /\ UNCHANGED <<pc, bs, tc, serial_in, received, rendered, nkeys>>

\* REPLPane.__init__(port, theme), when no pane exists (none was constructed
\* yet, or the last construction raised); opens tells whether serial.open
\* succeeds.
REPLPaneInit(opens, theme) ==
    /\ serial_state \in {"unopened", "failed"}
    /\ IF opens
       THEN /\ serial_state' = "open"
            /\ baudRate' = BAUD
            /\ readyRead' = TRUE
            /\ text' = <<>>
            /\ cursor' = Cursor(0, 0)
            /\ serial_out' = Append(serial_out, <<CTRL_C>>)
            /\ repl_style' = ReplStyle(theme)
            /\ ctor_effects' = <<"setBaudRate", "connect", "clear", "write",
                                 "set_theme">>
            /\ ctor_raised' = "none"
       ELSE /\ serial_state' = "failed"
            /\ ctor_raised' = "IOError"
            /\ UNCHANGED <<baudRate, readyRead, text, cursor, serial_out,
                           repl_style, ctor_effects>>
    /\ UNCHANGED <<pc, bs, tc, serial_in, received, rendered, nkeys>>

\* The device sends byte b; it waits in the port's buffer.
DeviceSend(b) ==
    /\ serial_state = "open"
    /\ Len(received) < MaxRx
    /\ serial_in' = Append(serial_in, b)
    /\ received' = Append(received, b)
    /\ UNCHANGED <<serial_state, baudRate, readyRead, ctor_effects,
                   ctor_raised, repl_style, text, cursor, pc, bs, tc,
                   serial_out, rendered, nkeys>>

\* The user clicks or drags in the pane: the widget's cursor goes to
\* position p with its anchor at a.
UserSelect(p, a) ==
    /\ serial_state = "open"
    /\ pc = "idle"
    /\ p \in 0..Len(text)
    /\ a \in 0..Len(text)
    /\ cursor' = Cursor(p, a)
    /\ UNCHANGED <<serial_state, baudRate, readyRead, ctor_effects,
                   ctor_raised, repl_style, text, pc, bs, tc, serial_in,
                   serial_out, received, rendered, nkeys>>

\* on_serial_read reading the port's buffer without emptying it.
on_serial_read_Peek ==
    /\ readyRead
    /\ pc = "idle"
    /\ serial_in # <<>>
    /\ bs' = serial_in
    /\ tc' = MoveToLastLine(text, cursor,
                            cursor.position - LineStart(text, cursor.position))
    /\ pc' = "process_bytes"
    /\ UNCHANGED <<serial_state, baudRate, readyRead, ctor_effects,
                   ctor_raised, repl_style, text, cursor, serial_in,
                   serial_out, received, rendered, nkeys>>

\* on_serial_read, up to the for loop of process_bytes: readAll empties the
\* port's buffer, tc is a copy of the widget's cursor moved to the last line.
on_serial_read ==
    /\ readyRead
    /\ pc = "idle"
    /\ serial_in # <<>>
    /\ bs' = serial_in
    /\ serial_in' = <<>>
    /\ tc' = MoveToLastLine(text, cursor,
                            cursor.position - LineStart(text, cursor.position))
    /\ pc' = "process_bytes"
    /\ UNCHANGED <<serial_state, baudRate, readyRead, ctor_effects,
                   ctor_raised, repl_style, text, cursor, serial_out,
                   received, rendered, nkeys>>

\* One iteration of the for loop of process_bytes; after the last one
\* ensureCursorVisible runs and the callback returns.
process_byte ==
    /\ pc = "process_bytes"
    /\ bs # <<>>
    /\ LET st == HandleByte(LoopState(text, tc, cursor), Head(bs))
           last == Tail(bs) = <<>>
       IN  /\ text' = st.text
           /\ cursor' = st.cursor
           /\ tc' = IF last THEN Cursor(0, 0) ELSE st.tc
           /\ pc' = IF last THEN "idle" ELSE "process_bytes"
    /\ bs' = Tail(bs)
    /\ rendered' = Append(rendered, Head(bs))
    /\ UNCHANGED <<serial_state, baudRate, readyRead, ctor_effects,
                   ctor_raised, repl_style, serial_in, serial_out, received,
                   nkeys>>

\* REPLPane.keyPressEvent
keyPressEvent(key, mods, txt) ==
    /\ serial_state = "open"
    /\ pc = "idle"
    /\ nkeys < MaxKeys
    /\ serial_out' = Append(serial_out, KeyMsg(key, mods, txt))
    /\ nkeys' = nkeys + 1
    /\ UNCHANGED <<serial_state, baudRate, readyRead, ctor_effects,
                   ctor_raised, repl_style, text, cursor, pc, bs, tc,
                   serial_in, received, rendered>>

\* --------------------------------------------------------- Window actions
replrest == <<serial_state, baudRate, readyRead, ctor_effects, ctor_raised,
              text, cursor, pc, bs, tc, serial_in, serial_out, received,
              rendered, nkeys>>

\* Window.set_theme(t) applied to the tabs ts.
SetTheme(ts, t) ==
    /\ win_theme' = t
    /\ style' = ThemeStyle(t)
    /\ tabs' = ThemedTabs(ts, t)
    /\ theme_icon' = ThemeIcon(t)
    /\ IF win_repl = "REPLPane"
       THEN repl_style' = ReplStyle(t) /\ UNCHANGED replrest
       ELSE UNCHANGED replvars

\* Window.set_theme(t)
set_theme(t) ==
    /\ SetTheme(tabs, t)
    /\ UNCHANGED <<current, visible, win_repl, viewvars>>

\* Window.add_tab without the closing self.set_theme(self.theme).
add_tab_NoTheme(path) ==
    /\ Len(tabs) < MaxTabs
    /\ tabs' = Append(tabs, EditorPane(path, Len(tabs) + 1))
    /\ current' = Len(tabs) + 1
    /\ visible' = SetButtonState(visible, path)
    /\ UNCHANGED <<win_theme, style, theme_icon, win_repl, replvars, viewvars>>

\* Window.add_tab(path, text): the new tab becomes the current one, which
\* emits currentChanged and so runs check_button_state on it; then the
\* window's theme is set again.
add_tab(path) ==
    /\ Len(tabs) < MaxTabs
    /\ current' = Len(tabs) + 1
    /\ visible' = SetButtonState(visible, path)
    /\ SetTheme(Append(tabs, EditorPane(path, Len(tabs) + 1)), win_theme)
    /\ UNCHANGED <<win_repl, viewvars>>

\* The handler on_modified of add_tab: the editor of tab i reports that its
\* modification state changed to m (an edit, or a save by the caller), and
\* the handler sets the text of the tab at the index where tab i was added
\* (setTabText does nothing when there is no tab at that index).
on_modified(i, m) ==
    /\ i \in DOMAIN tabs
    /\ tabs[i].modified # m
    /\ LET ts == [tabs EXCEPT ![i].modified = m]
           k == tabs[i].index
       IN  tabs' = IF k \in DOMAIN ts
                   THEN [ts EXCEPT ![k].tab_text = Label(tabs[i].path, m)]
                   ELSE ts
    /\ UNCHANGED <<win_theme, style, theme_icon, current, visible, win_repl,
                   replvars, viewvars>>

\* Window.check_button_state(index): the user selected another tab.
check_button_state(i) ==
    /\ i \in DOMAIN tabs
    /\ i # current
    /\ current' = i
    /\ visible' = SetButtonState(visible, tabs[i].path)
    /\ UNCHANGED <<win_theme, style, theme_icon, tabs, win_repl, replvars,
                   viewvars>>

\* tabs.tabCloseRequested -> tabs.removeTab: the user closes tab i.  The tab
\* bar makes the right neighbour (or the last tab) current when the current
\* tab goes and renumbers the current tab when an earlier one goes; both
\* emit currentChanged and so run check_button_state, which raises
\* IndexError on the empty list when no tab is left.
close_tab(i) ==
    /\ i \in DOMAIN tabs
    /\ tabs' = RemoveAt(tabs, i)
    /\ current' = IF i = current THEN Min(i, Len(tabs) - 1)
                  ELSE IF i < current THEN current - 1
                  ELSE current
    /\ visible' = IF i <= current /\ Len(tabs) > 1
                  THEN SetButtonState(visible, tabs'[current'].path)
                  ELSE visible
    /\ UNCHANGED <<win_theme, style, theme_icon, win_repl, replvars,
                   viewvars>>

\* Window.add_repl(repl) for a device: a REPLPane with the window's theme.
add_repl_device(opens) ==
    /\ win_repl \in {"unset", "None"}
    /\ REPLPaneInit(opens, win_theme)
    /\ win_repl' = IF opens THEN "REPLPane" ELSE win_repl
    /\ UNCHANGED <<win_theme, style, theme_icon, tabs, current, visible,
                   viewvars>>

\* Window.add_repl() without a device: the Jupyter widget.
add_repl_jupyter ==
    /\ win_repl \in {"unset", "None"}
    /\ win_repl' = "RichJupyterWidget"
    /\ UNCHANGED <<win_theme, style, theme_icon, tabs, current, visible,
                   replvars, viewvars>>

\* Window.remove_repl: the widget is deleted; a REPLPane takes its state
\* with it.
remove_repl ==
    /\ win_repl \in {"REPLPane", "RichJupyterWidget"}
    /\ win_repl' = "None"
    /\ IF win_repl = "REPLPane"
       THEN /\ serial_state' = "unopened"
            /\ baudRate' = 0
            /\ readyRead' = FALSE
            /\ ctor_effects' = <<>>
            /\ ctor_raised' = "none"
            /\ repl_style' = "unset"
            /\ text' = <<>>
            /\ cursor' = Cursor(0, 0)
            /\ pc' = "idle"
            /\ bs' = <<>>
            /\ tc' = Cursor(0, 0)
            /\ serial_in' = <<>>
            /\ serial_out' = <<>>
            /\ received' = <<>>
            /\ rendered' = <<>>
            /\ nkeys' = 0
       ELSE UNCHANGED replvars
    /\ UNCHANGED <<win_theme, style, theme_icon, tabs, current, visible,
                   viewvars>>

\* Window.add_webview_left
add_webview_left ==
    /\ webview_left' = "WebViewPane"
    /\ zoom_left' = ZoomDefault
    /\ UNCHANGED <<webview_right, zoom_right, read_left, read_right,
                   template, project, replvars, tabvars>>

\* Window.remove_webview_left
remove_webview_left ==
    /\ webview_left = "WebViewPane"
    /\ webview_left' = "None"
    /\ zoom_left' = ZoomDefault
    /\ UNCHANGED <<webview_right, zoom_right, read_left, read_right,
                   template, project, replvars, tabvars>>

\* Window.add_webview_right
add_webview_right ==
    /\ webview_right' = "WebViewPane"
    /\ zoom_right' = ZoomDefault
    /\ UNCHANGED <<webview_left, zoom_left, read_left, read_right,
                   template, project, replvars, tabvars>>

\* Window.remove_webview_right
remove_webview_right ==
    /\ webview_right = "WebViewPane"
    /\ webview_right' = "None"
    /\ zoom_right' = ZoomDefault
    /\ UNCHANGED <<webview_left, zoom_left, read_left, read_right,
                   template, project, replvars, tabvars>>

\* Reading the property Window.webview_left.
read_webview_left ==
    /\ read_left' = WebviewLeftGet
    /\ UNCHANGED <<webview_left, webview_right, zoom_left, zoom_right,
                   read_right, template, project, replvars, tabvars>>

\* Reading the property Window.webview_right.
read_webview_right ==
    /\ read_right' = WebviewRightGet(0)
    /\ UNCHANGED <<webview_left, webview_right, zoom_left, zoom_right,
                   read_left, template, project, replvars, tabvars>>

\* Window.zoom_in: the signal runs zoomIn of every web view displayed.
zoom_in ==
    /\ "WebViewPane" \in {webview_left, webview_right}
    /\ zoom_left' = IF webview_left = "WebViewPane"
                    THEN ZoomIn(zoom_left) ELSE zoom_left
    /\ zoom_right' = IF webview_right = "WebViewPane"
                     THEN ZoomIn(zoom_right) ELSE zoom_right
    /\ UNCHANGED <<webview_left, webview_right, read_left, read_right,
                   template, project, replvars, tabvars>>

\* Window.zoom_out: the signal runs zoomOut of every web view displayed.
zoom_out ==
    /\ "WebViewPane" \in {webview_left, webview_right}
    /\ zoom_left' = IF webview_left = "WebViewPane"
                    THEN ZoomOut(zoom_left) ELSE zoom_left
    /\ zoom_right' = IF webview_right = "WebViewPane"
                     THEN ZoomOut(zoom_right) ELSE zoom_right
    /\ UNCHANGED <<webview_left, webview_right, read_left, read_right,
                   template, project, replvars, tabvars>>

\* Window.get_template: the dialog runs, the user selects template row,
\* types name and closes the dialog with result.
get_template(result, row, name) ==
    /\ template' = GetTemplate(result, row, name)
    /\ UNCHANGED <<webview_left, webview_right, zoom_left, zoom_right,
                   read_left, read_right, project, replvars, tabvars>>

\* ProjectSelector.get_project on a dialog in the given state.
get_project(result, row, name) ==
    /\ project' = GetProject(result, row, name)
    /\ UNCHANGED <<webview_left, webview_right, zoom_left, zoom_right,
                   read_left, read_right, template, replvars, tabvars>>

\* --------------------------------------------------------- specifications
winvars == <<tabvars, viewvars>>

\* The REPL pane rendering what the device sends.
Next ==
    \/ \E opens \in BOOLEAN, th \in Themes :
           REPLPaneInit(opens, th) /\ UNCHANGED winvars
    \/ \E b \in Bytes : DeviceSend(b) /\ UNCHANGED winvars
    \/ \E p \in 0..MaxRx, a \in 0..MaxRx : UserSelect(p, a) /\ UNCHANGED winvars
    \/ on_serial_read /\ UNCHANGED winvars
    \/ process_byte /\ UNCHANGED winvars

Spec == Init /\ [][Next]_vars

\* The REPL pane forwarding what the user types.
NextKeys ==
    \/ \E opens \in BOOLEAN, th \in Themes :
           REPLPaneInit(opens, th) /\ UNCHANGED winvars
    \/ \E key \in Keys, mods \in Modifiers, txt \in KeyTexts :
           keyPressEvent(key, mods, txt) /\ UNCHANGED winvars

SpecKeys == Init /\ [][NextKeys]_vars

\* The window's editor tabs, theme, button bar and REPL as the user opens,
\* selects and closes tabs and toggles the REPL.
NextTabs ==
    \/ \E t \in Themes : set_theme(t)
    \/ \E path \in Paths : add_tab(path)
    \/ \E i \in 1..MaxTabs : check_button_state(i)
    \/ \E i \in 1..MaxTabs : close_tab(i)
    \/ \E opens \in BOOLEAN : add_repl_device(opens)
    \/ add_repl_jupyter
    \/ remove_repl

SpecTabs == Init /\ [][NextTabs]_vars

\* The editor tabs and their labels as the user edits and saves.
NextLabels ==
    \/ \E t \in Themes : set_theme(t)
    \/ \E path \in Paths : add_tab(path)
    \/ \E i \in 1..MaxTabs, m \in BOOLEAN : on_modified(i, m)

SpecLabels == Init /\ [][NextLabels]_vars

\* The window's web views and its project dialog.
NextViews ==
    \/ add_webview_left
    \/ remove_webview_left
    \/ add_webview_right
    \/ remove_webview_right
    \/ read_webview_left
    \/ read_webview_right
    \/ zoom_in
    \/ zoom_out
    \/ \E result \in {Rejected, Accepted}, row \in DOMAIN Templates,
          name \in ProjectNames : get_template(result, row, name)
    \/ \E result \in {Rejected, Accepted}, row \in DOMAIN Templates,
          name \in ProjectNames : get_project(result, row, name)

SpecViews == Init /\ [][NextViews]_vars

\* ================================================================= claims

\* C1 (as claimed): process_bytes handles each byte by one of three
\* branches: byte 8 moves the cursor one position left and leaves the text
\* unchanged; byte 13 leaves text and cursor unchanged; every other byte
\* deletes the character under the cursor (nothing at the end of the text)
\* and inserts chr(b) there, the cursor ending just after it.
C1_AsClaimed ==
    [][process_byte =>
        LET b == Head(bs)
            p == tc.position
        IN  /\ b = BS => /\ text' = text
                         /\ cursor'.position = p - 1
            /\ b = CR => /\ text' = text
                         /\ cursor' = cursor
            /\ b \notin {BS, CR} =>
                   /\ text' = SubSeq(text, 1, p) \o <<b>>
                                \o SubSeq(text, p + 2, Len(text))
                   /\ cursor'.position = p + 1]_vars

\* C1 (amended): byte 8 moves the cursor one position left, or leaves it
\* where it is at the start of the text, and leaves the text unchanged;
\* byte 13 leaves text and cursor unchanged; every other byte deletes the
\* selected text when the cursor carries a selection and otherwise the
\* character under the cursor (nothing at the end of the text), and inserts
\* chr(b) there, the cursor ending just after it without a selection.
C1_ByteBranches ==
    [][process_byte =>
        LET b == Head(bs)
            p == tc.position
            lo == IF tc.anchor < p THEN tc.anchor ELSE p
            hi == IF tc.anchor < p THEN p ELSE tc.anchor
        IN  /\ b = BS => /\ text' = text
                         /\ cursor'.position = (IF p = 0 THEN 0 ELSE p - 1)
                         /\ cursor'.anchor = cursor'.position
            /\ b = CR => /\ text' = text
                         /\ cursor' = cursor
            /\ b \notin {BS, CR} =>
                   /\ lo = hi => text' = SubSeq(text, 1, p) \o <<b>>
                                           \o SubSeq(text, p + 2, Len(text))
                   /\ lo < hi => text' = SubSeq(text, 1, lo) \o <<b>>
                                           \o SubSeq(text, hi + 1, Len(text))
                   /\ cursor'.position = lo + 1
                   /\ cursor'.anchor = lo + 1]_vars

\* C1 witness: 'a' was written, a backspace moved back over it and ESC
\* overwrote it.
C1_Witness == rendered = <<97, BS, ESC>> /\ text = <<ESC>>

\* C2: keyPressEvent writes exactly one message per key event: Backspace ->
\* 0x08; Up, Down, Right, Left -> ESC '[' 'A', 'B', 'C', 'D'; otherwise Meta
\* with a letter A..Z -> the byte 1 + (key - A), in 1..26; in every other
\* case the UTF-8 encoding of the event's text.
C2_KeyMessages ==
    [][\A key \in Keys, mods \in Modifiers, txt \in KeyTexts :
        keyPressEvent(key, mods, txt) =>
            LET msg == serial_out'[Len(serial_out')]
                arrows == {Key_Up, Key_Down, Key_Right, Key_Left}
                letter == mods = MetaModifier /\ key \in Key_A..Key_Z
                plain == key \notin arrows \cup {Key_Backspace}
            IN  /\ Len(serial_out') = Len(serial_out) + 1
                /\ SubSeq(serial_out', 1, Len(serial_out)) = serial_out
                /\ key = Key_Backspace => msg = <<8>>
                /\ key = Key_Up => msg = <<27, 91, 65>>
                /\ key = Key_Down => msg = <<27, 91, 66>>
                /\ key = Key_Right => msg = <<27, 91, 67>>
                /\ key = Key_Left => msg = <<27, 91, 68>>
                /\ plain /\ letter => /\ msg = <<1 + (key - Key_A)>>
                                      /\ msg[1] \in 1..26
                /\ plain /\ ~letter =>
                       /\ txt = <<>> => msg = <<>>
                       /\ txt = <<97>> => msg = <<97>>
                       /\ txt = <<233>> => msg = <<195, 169>>
                       /\ txt = <<8364>> => msg = <<226, 130, 172>>]_vars

\* C2 witness: a Meta letter and a two-byte UTF-8 text were both forwarded.
C2_Witness ==
    /\ nkeys = 2
    /\ \E i \in DOMAIN serial_out : serial_out[i] = <<26>>
    /\ \E i \in DOMAIN serial_out : serial_out[i] = <<195, 169>>

\* C3: constructing a REPLPane succeeds or raises.  When the port opens the
\* baud rate is 115200, the read callback is connected, the text is cleared
\* and exactly one byte 0x03 is written, in that order, before the theme is
\* applied; when it does not open IOError is raised, no byte is written, no
\* callback is connected and no theme is applied.
C3_Construction ==
    /\ serial_state = "open" =>
           /\ ctor_raised = "none"
           /\ baudRate = 115200
           /\ readyRead
           /\ ctor_effects = <<"setBaudRate", "connect", "clear", "write",
                               "set_theme">>
           /\ Len(serial_out) = 1 + nkeys
           /\ serial_out[1] = <<3>>
           /\ repl_style \in {"DAY_STYLE", "NIGHT_STYLE"}
           /\ received = <<>> => text = <<>>
    /\ serial_state = "failed" =>
           /\ ctor_raised = "IOError"
           /\ serial_out = <<>>
           /\ ~readyRead
           /\ repl_style = "unset"
           /\ ctor_effects = <<>>
           /\ baudRate = 0
    /\ serial_state = "unopened" => ctor_raised = "none" /\ serial_out = <<>>

\* C3 witness: a pane whose port opened, before anything else happened.
C3_Witness ==
    serial_state = "open" /\ received = <<>> /\ Len(serial_out) = 1

\* C4: callbacks run one at a time; each on_serial_read drains everything
\* available and process_bytes runs to completion, so every byte received
\* from the device is rendered exactly once and in the order received: the
\* bytes rendered, those the running loop holds and those waiting in the
\* port are together what the device sent, and nothing is held outside a
\* running loop.
C4_RenderedOnceInOrder ==
    /\ rendered \o bs \o serial_in = received
    /\ pc = "idle" => bs = <<>>
    /\ pc = "process_bytes" => bs # <<>>

\* C4 witness: bytes arrived while an earlier delivery was being rendered.
C4_Witness ==
    /\ pc = "process_bytes"
    /\ rendered # <<>>
    /\ serial_in # <<>>

\* The base name the label of a tab with a non-empty path starts with: the
\* part of the path after its last '/'.
IsBaseName(b, path) ==
    \E k \in 0..Len(path) :
        /\ b = SubSeq(path, k + 1, Len(path))
        /\ ~ Contains(b, "/")
        /\ k = 0 \/ SubSeq(path, k, k) = "/"

\* C5: EditorPane.label is the base name of the pane's path when the path
\* is non-empty and 'untitled' otherwise, followed by ' *' if and only if
\* the pane is modified; a freshly constructed pane is unmodified, so its
\* label has no asterisk.  (add_tab hands the new pane's label to the tab
\* bar, where it is tab_text.)
C5_Label ==
    /\ [](\A i \in DOMAIN tabs :
            LET t == tabs[i]
                label == Label(t.path, t.modified)
            IN  \E b \in {SubSeq(t.path, k + 1, Len(t.path)) :
                              k \in 0..Len(t.path)} \cup {"untitled"} :
                    /\ t.path # "" => IsBaseName(b, t.path)
                    /\ t.path = "" => b = "untitled"
                    /\ t.modified => label = b \o " *"
                    /\ ~ t.modified => label = b)
    /\ [][\A path \in Paths : add_tab(path) =>
            LET t == tabs'[Len(tabs')]
            IN  /\ ~ t.modified
                /\ t.path = path
                /\ path = "" => t.tab_text = "untitled"
                /\ path # "" => IsBaseName(t.tab_text, path)]_vars

\* C5 witness: a modified tab whose path has directories.
C5_Witness ==
    \E i \in DOMAIN tabs :
        /\ tabs[i].path = "/home/pygamezero/micropython.py"
        /\ tabs[i].modified
        /\ Label(tabs[i].path, tabs[i].modified) = "micropython.py *"
        /\ tabs[i].tab_text = "micropython.py *"

\* C6 (as claimed): reading Window.webview_right completes and returns the
\* web view pane if one is displayed and None otherwise, as webview_left does.
C6_AsClaimed ==
    [][read_webview_right =>
        read_right' = IF webview_right = "WebViewPane"
                      THEN Returned(Widget("WebViewPane"))
                      ELSE Returned(PyNone)]_vars

\* C7: ProjectSelector.get_project returns the record {path, default, name}
\* of the selected template and the typed name when the dialog's result is
\* Accepted and raises RuntimeError otherwise; Window.get_template returns
\* that record when the dialog was accepted and None when it was not, and
\* never lets the RuntimeError escape.
C7_ProjectSelection ==
    /\ [][\A result \in {Rejected, Accepted}, row \in DOMAIN Templates,
             name \in ProjectNames :
            LET rec == [path |-> Templates[row].path,
                        default |-> Templates[row].default, name |-> name]
            IN  /\ get_project(result, row, name) =>
                       /\ result = 1 => project' = Returned(rec)
                       /\ result # 1 => project' = Raised("RuntimeError")
                /\ get_template(result, row, name) =>
                       /\ result = 1 => template' = Returned(rec)
                       /\ result # 1 => template' = Returned(PyNone)]_vars
    /\ []("raised" \notin DOMAIN template)

\* C7 witness: a rejected dialog gave None at the window's level and
\* RuntimeError at the selector's.
C7_Witness ==
    /\ template = Returned(PyNone)
    /\ project = Raised("RuntimeError")

\* C8: zoomIn sets the zoom factor to min(current + 0.1, 2.0) and zoomOut
\* to max(current - 0.1, 0.5); starting from 1.0 the factor stays within
\* 0.5..2.0 and each call changes it by at most one step of 0.1 (in tenths).
C8_ZoomClamped ==
    /\ [](zoom_left \in 5..20 /\ zoom_right \in 5..20)
    /\ [][zoom_in =>
            /\ webview_left = "WebViewPane" =>
                   /\ zoom_left' = (IF zoom_left + 1 <= 20
                                    THEN zoom_left + 1 ELSE 20)
                   /\ zoom_left' - zoom_left \in {0, 1}
            /\ webview_right = "WebViewPane" =>
                   /\ zoom_right' = (IF zoom_right + 1 <= 20
                                     THEN zoom_right + 1 ELSE 20)
                   /\ zoom_right' - zoom_right \in {0, 1}]_vars
    /\ [][zoom_out =>
            /\ webview_left = "WebViewPane" =>
                   /\ zoom_left' = (IF zoom_left - 1 >= 5
                                    THEN zoom_left - 1 ELSE 5)
                   /\ zoom_left - zoom_left' \in {0, 1}
            /\ webview_right = "WebViewPane" =>
                   /\ zoom_right' = (IF zoom_right - 1 >= 5
                                     THEN zoom_right - 1 ELSE 5)
                   /\ zoom_right - zoom_right' \in {0, 1}]_vars

\* C8 witness: the left web view zoomed in to the upper limit, the right
\* one, added later, five steps behind it.
C8_Witness ==
    /\ webview_left = "WebViewPane" /\ zoom_left = 20
    /\ webview_right = "WebViewPane" /\ zoom_right = 15

\* C9: after any sequence of add_tab and set_theme calls Window.theme holds
\* the last theme given and every open editor tab carries the matching
\* theme class (NightTheme if and only if the theme is 'night', DayTheme
\* otherwise), tabs added after the last set_theme included; the theme
\* button's icon is 'theme_day' if and only if the theme is 'night'.
C9_Theme ==
    /\ [](/\ \A i \in DOMAIN tabs :
                /\ tabs[i].theme \in {"NightTheme", "DayTheme"}
                /\ tabs[i].theme = "NightTheme" <=> win_theme = "night"
          /\ theme_icon = "theme_day" <=> win_theme = "night")
    /\ [][/\ \A t \in Themes : set_theme(t) => win_theme' = t
          /\ \A path \in Paths : add_tab(path) => win_theme' = win_theme]_vars

\* C9 witness: two tabs under the night theme.
C9_Witness ==
    /\ win_theme = "night"
    /\ Len(tabs) = 2
    /\ tabs[2].theme = "NightTheme"

\* What C10 says of the buttons after set_button_state on a tab with path p.
ButtonsFor(p, before, after) ==
    LET mp == Contains(p, "micropython")
        pg == Contains(p, "pygamezero")
        shown == {b \in {"run", "flash", "play"} : after[b]}
    IN  /\ p # "" => /\ Cardinality(shown) = 1
                     /\ mp => shown = {"flash"}
                     /\ ~ mp /\ pg => shown = {"play"}
                     /\ ~ mp /\ ~ pg => shown = {"run"}
        /\ p = "" => after = before

\* C10: set_button_state shows the buttons of the tab's project type: for a
\* non-empty path exactly one of run, flash and play is visible afterwards
\* (flash if the path contains 'micropython', else play if it contains
\* 'pygamezero', else run); for an empty path no button's visibility changes.
C10_ButtonState ==
    [][/\ \A i \in 1..MaxTabs : check_button_state(i) =>
              ButtonsFor(tabs[i].path, visible, visible')
       /\ \A path \in Paths : add_tab(path) =>
              ButtonsFor(path, visible, visible')]_vars

\* C10 witness: the current tab's path holds both 'micropython' and
\* 'pygamezero', and flash alone is visible.
C10_Witness ==
    /\ current \in DOMAIN tabs
    /\ tabs[current].path = "/home/pygamezero/micropython.py"
    /\ visible.flash /\ ~ visible.run /\ ~ visible.play

\* C11 (as claimed): rendering does not depend on how the byte stream is
\* split into deliveries.  At any point inside a call process_bytes(a ++ b),
\* with a handled and b still to come, finishing the call leaves the same
\* text and cursor position as returning there and rendering b by a second
\* call process_bytes(b), the user not touching the cursor in between.
C11_AsClaimed ==
    pc = "process_bytes" =>
        LET one == ForBytes(LoopState(text, tc, cursor), bs)
            two == ProcessBytes(text, cursor, bs)
        IN  /\ one.text = two.text
            /\ one.cursor.position = two.cursor.position

====
